---- MODULE Spec2Model ----
(***************************************************************************)
(* Single Transferable Vote count of src/stv.py: Ballot, Round and the     *)
(* Election.run_election loop with transfer_surplus and eliminate_losers.  *)
(*                                                                         *)
(* Candidates are the numbers 1..n in the order of the candidates list.    *)
(* Scores, weights and the threshold are exact rationals <<num, den>> in   *)
(* lowest terms with den > 0 (Python computes them in binary floating      *)
(* point; the model follows the arithmetic the code writes down).          *)
(***************************************************************************)
EXTENDS Integers, Sequences, FiniteSets

\* Largest number of candidates of an election.
MaxCands == 3
\* Largest number of ballots of an election.
MaxBallots == 4
\* Largest number of preferences written on all the ballots together.
MaxPrefs == 5

VARIABLES
    candidates,     \* the list handed to Election.__init__ (never changes)
    hopefuls,       \* Election.hopefuls
    ballots,        \* Election.ballots: sequence of [ranking, weight]
    seats,          \* Election.seats
    winners,        \* Election.winners
    losers,         \* Election.losers
    rounds,         \* Election.rounds
    scores,         \* run_election's local dict `scores`
    final_winners,  \* run_election's local list `final_winners`
    pc,             \* position in run_election
    iter            \* what the current iteration of the while loop started from

vars == <<candidates, hopefuls, ballots, seats, winners, losers, rounds,
          scores, final_winners, pc, iter>>

----------------------------------------------------------------------------
\* Exact rational arithmetic.

Abs(x) == IF x < 0 THEN -x ELSE x

RECURSIVE GCD(_, _)
GCD(a, b) == IF b = 0 THEN a ELSE GCD(b, a % b)

\* The rational n/d (d # 0) in lowest terms with a positive denominator.
Rat(n, d) ==
    LET g == GCD(Abs(n), Abs(d))
        s == IF d < 0 THEN -1 ELSE 1
    IN  <<(s * n) \div g, (s * d) \div g>>

Zero == <<0, 1>>
One == <<1, 1>>

RatAdd(a, b) == Rat(a[1] * b[2] + b[1] * a[2], a[2] * b[2])
RatSub(a, b) == Rat(a[1] * b[2] - b[1] * a[2], a[2] * b[2])
RatMul(a, b) == Rat(a[1] * b[1], a[2] * b[2])
RatDiv(a, b) == Rat(a[1] * b[2], a[2] * b[1])
RatLt(a, b) == a[1] * b[2] < b[1] * a[2]
RatLeq(a, b) == a[1] * b[2] <= b[1] * a[2]

----------------------------------------------------------------------------
\* Lists.

Range(s) == {s[i] : i \in DOMAIN s}

\* Python's `x in list`.
In(x, s) == x \in Range(s)

\* Python's list.remove(x): the first occurrence goes; x is known to be there.
RECURSIVE Remove(_, _)
Remove(s, x) ==
    IF s = <<>> THEN <<>>
    ELSE IF Head(s) = x THEN Tail(s)
    ELSE <<Head(s)>> \o Remove(Tail(s), x)

\* Removing each element of xs in turn (for winner in round_winners: remove).
RECURSIVE RemoveAll(_, _)
RemoveAll(s, xs) ==
    IF xs = <<>> THEN s ELSE RemoveAll(Remove(s, Head(xs)), Tail(xs))

----------------------------------------------------------------------------
\* Ballot.

NoPreference == 0

Ballot(ranking) == [ranking |-> ranking, weight |-> One]

current_preference(ballot) ==
    IF ballot.ranking = <<>> THEN NoPreference ELSE ballot.ranking[1]

\* A drop that leaves the ranking as it is.
drop_nothing(ballot, candidate) == ballot

\* list.remove inside try/except ValueError: absent candidates are ignored.
drop(ballot, candidate) ==
    IF In(candidate, ballot.ranking)
    THEN [ballot EXCEPT !.ranking = Remove(ballot.ranking, candidate)]
    ELSE ballot

RECURSIVE dropAll(_, _)
dropAll(ballot, cands) ==
    IF cands = <<>> THEN ballot
    ELSE dropAll(drop(ballot, Head(cands)), Tail(cands))

----------------------------------------------------------------------------
\* Round.

\* Python's None where a list is expected (0 is no candidate).
None == <<0>>

Round(w, l, sc) == [winners |-> w, losers |-> l, scores |-> sc]

----------------------------------------------------------------------------
\* Election.

\* The quota taken from the weight the ballots carry now.
RECURSIVE WeightSum(_)
WeightSum(bs) == IF bs = <<>> THEN <<0, 1>> ELSE RatAdd(Head(bs).weight, WeightSum(Tail(bs)))
threshold_from_weights == RatDiv(WeightSum(ballots), Rat(seats + 1, 1))

\* len(self.ballots) / (self.seats + 1)
threshold == Rat(Len(ballots), seats + 1)

\* Each ballot counted as one vote whatever its weight.
RECURSIVE Tally_unit(_, _, _)
Tally_unit(bs, cand, k) ==
    IF k = 0 THEN <<0, 1>>
    ELSE IF current_preference(bs[k]) = cand
         THEN RatAdd(Tally_unit(bs, cand, k - 1), <<1, 1>>)
         ELSE Tally_unit(bs, cand, k - 1)

\* Sum of the weights of ballots[1..k] whose current preference is cand.
RECURSIVE Tally(_, _, _)
Tally(bs, cand, k) ==
    IF k = 0 THEN Zero
    ELSE IF current_preference(bs[k]) = cand
         THEN RatAdd(Tally(bs, cand, k - 1), bs[k].weight)
         ELSE Tally(bs, cand, k - 1)

\* run_election: the score table of a round, keyed by the hopefuls.
compute_scores ==
    [cand \in Range(hopefuls) |->
        RatAdd(IF In(cand, winners) THEN threshold ELSE Zero,
               Tally(ballots, cand, Len(ballots)))]

\* scores[ballot.current_preference] raises KeyError for a preference that is
\* not a key of the table.
ScoringFails ==
    \E i \in DOMAIN ballots :
        /\ current_preference(ballots[i]) # NoPreference
        /\ ~In(current_preference(ballots[i]), hopefuls)

\* The winning test with > in place of >=.
RECURSIVE MeetThreshold_strict(_, _, _)
MeetThreshold_strict(s, sc, t) ==
    IF s = <<>> THEN <<>>
    ELSE (IF RatLt(t, sc[Head(s)]) THEN <<Head(s)>> ELSE <<>>)
         \o MeetThreshold_strict(Tail(s), sc, t)

\* [cand for cand in self.hopefuls if scores[cand] >= self.threshold]
RECURSIVE MeetThreshold(_, _, _)
MeetThreshold(s, sc, t) ==
    IF s = <<>> THEN <<>>
    ELSE (IF RatLeq(t, sc[Head(s)]) THEN <<Head(s)>> ELSE <<>>)
         \o MeetThreshold(Tail(s), sc, t)

\* One step of a stable descending sort: x goes behind every element whose
\* score is at least its own.
RECURSIVE InsertDesc(_, _, _)
InsertDesc(s, x, sc) ==
    IF s = <<>> THEN <<x>>
    ELSE IF RatLeq(sc[x], sc[Head(s)])
         THEN <<Head(s)>> \o InsertDesc(Tail(s), x, sc)
         ELSE <<x>> \o s

\* sorted(s, key=lambda cand: scores[cand], reverse=True): stable.
RECURSIVE SortDesc(_, _)
SortDesc(s, sc) ==
    IF s = <<>> THEN <<>>
    ELSE InsertDesc(SortDesc(SubSeq(s, 1, Len(s) - 1), sc), s[Len(s)], sc)

round_winners_strict(sc) == SortDesc(MeetThreshold_strict(hopefuls, sc, threshold), sc)

round_winners(sc) == SortDesc(MeetThreshold(hopefuls, sc, threshold), sc)

\* The share of the score kept by the candidate instead of the share above it.
surplus_quota_share(sc, p) == RatDiv(Rat(Len(ballots), seats + 1), sc[p])

\* The threshold subtracted the wrong way round.
surplus_negated(sc, p) == RatDiv(RatSub(Rat(Len(ballots), seats + 1), sc[p]), sc[p])

\* (scores[p] - threshold) / scores[p]
surplus(sc, p) == RatDiv(RatSub(sc[p], threshold), sc[p])

\* transfer_surplus, with `won` the winners list it reads.
transfer_surplus(bs, sc, won) ==
    [i \in DOMAIN bs |->
        IF In(current_preference(bs[i]), won)
        THEN [bs[i] EXCEPT !.weight = RatMul(@, surplus(sc, current_preference(bs[i])))]
        ELSE bs[i]]

\* The division in transfer_surplus raises ZeroDivisionError on a zero score.
TransferFails(bs, sc, won) ==
    \E i \in DOMAIN bs :
        /\ In(current_preference(bs[i]), won)
        /\ sc[current_preference(bs[i])] = Zero

\* min(self.hopefuls, key=lambda cand: scores[cand]): the first minimum.
RECURSIVE MinBy(_, _)
MinBy(s, sc) ==
    IF Len(s) = 1 THEN s[1]
    ELSE LET m == MinBy(SubSeq(s, 1, Len(s) - 1), sc)
         IN  IF RatLt(sc[s[Len(s)]], sc[m]) THEN s[Len(s)] ELSE m

\* [cand for cand in self.hopefuls if scores[cand] == loser_score]
RECURSIVE ScoreEquals(_, _, _)
ScoreEquals(s, sc, v) ==
    IF s = <<>> THEN <<>>
    ELSE (IF sc[Head(s)] = v THEN <<Head(s)>> ELSE <<>>)
         \o ScoreEquals(Tail(s), sc, v)

\* An elimination of the first lowest hopeful only.
round_losers_first(sc) == <<MinBy(hopefuls, sc)>>

\* An elimination that eliminates nobody.
round_losers_none(sc) == SubSeq(hopefuls, 1, 0)

\* eliminate_losers: the list `losers` it builds.
round_losers(sc) == ScoreEquals(hopefuls, sc, sc[MinBy(hopefuls, sc)])

----------------------------------------------------------------------------
\* The inputs: what ballots_from_json hands to Election.__init__.

\* Every ranking over the candidates S that names no candidate twice.
RECURSIVE Rankings(_)
Rankings(S) ==
    {<<>>} \cup UNION {{<<x>> \o r : r \in Rankings(S \ {x})} : x \in S}

\* A ranking read as a decimal number, to list equal ballots next to each other.
RECURSIVE Code(_)
Code(r) == IF r = <<>> THEN 0 ELSE 10 * Code(SubSeq(r, 1, Len(r) - 1)) + r[Len(r)]

RECURSIVE Prefs(_)
Prefs(rs) == IF rs = <<>> THEN 0 ELSE Len(Head(rs)) + Prefs(Tail(rs))

\* The lists of k rankings over R, one list for each multiset of rankings (the
\* count reads the ballots only through sums over all of them and through
\* per-ballot updates, so the order of the ballots list does not matter).
RECURSIVE RankingLists(_, _)
RankingLists(R, k) ==
    IF k = 0 THEN {<<>>}
    ELSE UNION {{Append(rs, r) :
                    r \in {x \in R : /\ Prefs(rs) + Len(x) <= MaxPrefs
                                     /\ rs # <<>> => Code(rs[Len(rs)]) <= Code(x)}} :
                rs \in RankingLists(R, k - 1)}

Inputs(n) == UNION {RankingLists(Rankings(1..n), k) : k \in 0..MaxBallots}

----------------------------------------------------------------------------
\* Election.__init__ and run_election.

\* What an iteration of the while loop starts from; fill is set to the
\* <<winners, losers>> the backfill starts from when the iteration runs it.
Snapshot ==
    [hopefuls |-> hopefuls, winners |-> winners, losers |-> losers,
     ballots |-> ballots, rounds |-> Len(rounds), fill |-> <<>>]

Init ==
    /\ candidates \in {[i \in 1..n |-> i] : n \in 0..MaxCands}
    /\ hopefuls = candidates
    /\ ballots \in {[i \in DOMAIN rs |-> Ballot(rs[i])] : rs \in Inputs(Len(candidates))}
    /\ seats \in 0..(Len(candidates) + 1)
    /\ winners = <<>>
    /\ losers = <<>>
    /\ rounds = <<>>
    /\ scores = <<>>
    /\ final_winners = <<>>
    /\ pc = "while"
    /\ iter = <<>>

\* while len(self.winners) < self.seats: the body is entered.
EnterLoop ==
    /\ pc = "while"
    /\ Len(winners) < seats
    /\ pc' = "score"
    /\ iter' = Append(iter, Snapshot)
    /\ UNCHANGED <<candidates, hopefuls, ballots, seats, winners, losers, rounds,
                   scores, final_winners>>

\* while len(self.winners) < self.seats: the loop is left and the method returns.
ExitLoop ==
    /\ pc = "while"
    /\ ~(Len(winners) < seats)
    /\ pc' = "done"
    /\ UNCHANGED <<candidates, hopefuls, ballots, seats, winners, losers, rounds,
                   scores, final_winners, iter>>

\* The two scoring loops.
Score ==
    /\ pc = "score"
    /\ IF ScoringFails
       THEN pc' = "error" /\ UNCHANGED scores
       ELSE pc' = "decide" /\ scores' = compute_scores
    /\ UNCHANGED <<candidates, hopefuls, ballots, seats, winners, losers, rounds,
                   final_winners, iter>>

\* if len(round_winners) > 0: the surplus transfer round.
ElectionRound ==
    /\ pc = "decide"
    /\ Len(round_winners(scores)) > 0
    /\ LET rw == round_winners(scores)
           won == winners \o rw
       IN  /\ winners' = won
           /\ rounds' = Append(rounds, Round(rw, None, scores))
           /\ hopefuls' = RemoveAll(hopefuls, rw)
           /\ IF TransferFails(ballots, scores, won)
              THEN pc' = "error" /\ UNCHANGED ballots
              ELSE pc' = "drop" /\ ballots' = transfer_surplus(ballots, scores, won)
    /\ UNCHANGED <<candidates, seats, losers, scores, final_winners, iter>>

\* else: self.eliminate_losers(scores)
EliminationRound ==
    /\ pc = "decide"
    /\ ~(Len(round_winners(scores)) > 0)
    /\ IF hopefuls = <<>>
       THEN UNCHANGED <<hopefuls, losers, rounds>>
       ELSE LET rl == round_losers(scores)
            IN  /\ losers' = losers \o rl
                /\ hopefuls' = RemoveAll(hopefuls, rl)
                /\ rounds' = Append(rounds, Round(None, rl, scores))
    /\ pc' = "drop"
    /\ UNCHANGED <<candidates, ballots, seats, winners, scores, final_winners, iter>>

\* for ballot in self.ballots: for candidate in self.winners + self.losers: drop
DropResolved ==
    /\ pc = "drop"
    /\ ballots' = [i \in DOMAIN ballots |-> dropAll(ballots[i], winners \o losers)]
    /\ pc' = "backfill"
    /\ UNCHANGED <<candidates, hopefuls, seats, winners, losers, rounds, scores,
                   final_winners, iter>>

\* if len(self.winners) + len(self.hopefuls) < self.seats: final_winners = []
BackfillTest ==
    /\ pc = "backfill"
    /\ IF Len(winners) + Len(hopefuls) < seats
       THEN /\ pc' = "fill"
            /\ final_winners' = <<>>
            /\ iter' = [iter EXCEPT ![Len(iter)].fill = <<winners, losers>>]
       ELSE /\ pc' = "trim"
            /\ UNCHANGED <<final_winners, iter>>
    /\ UNCHANGED <<candidates, hopefuls, ballots, seats, winners, losers, rounds,
                   scores>>

\* One pass of the inner while loop. Every Round it has appended holds the
\* list object final_winners itself, so all of them show the grown list.
BackfillStep ==
    /\ pc = "fill"
    /\ Len(winners) < seats
    /\ IF losers = <<>>
       THEN pc' = "error" /\ UNCHANGED <<losers, final_winners, rounds, winners>>
       ELSE LET fw == Append(final_winners, losers[Len(losers)])
                base == Len(rounds) - Len(final_winners)
            IN  /\ losers' = SubSeq(losers, 1, Len(losers) - 1)
                /\ final_winners' = fw
                /\ rounds' = [i \in 1..(Len(rounds) + 1) |->
                                IF i > base THEN Round(fw, None, scores) ELSE rounds[i]]
                /\ winners' = winners \o fw
                /\ pc' = "fill"
    /\ UNCHANGED <<candidates, hopefuls, ballots, seats, scores, iter>>

\* The inner while loop is left.
BackfillDone ==
    /\ pc = "fill"
    /\ ~(Len(winners) < seats)
    /\ pc' = "trim"
    /\ UNCHANGED <<candidates, hopefuls, ballots, seats, winners, losers, rounds,
                   scores, final_winners, iter>>

\* while len(self.winners) > self.seats: self.winners.pop()
TrimOverfill ==
    /\ pc = "trim"
    /\ winners' = IF Len(winners) > seats THEN SubSeq(winners, 1, seats) ELSE winners
    /\ pc' = "while"
    /\ UNCHANGED <<candidates, hopefuls, ballots, seats, losers, rounds, scores,
                   final_winners, iter>>

Next ==
    \/ EnterLoop
    \/ ExitLoop
    \/ Score
    \/ ElectionRound
    \/ EliminationRound
    \/ DropResolved
    \/ BackfillTest
    \/ BackfillStep
    \/ BackfillDone
    \/ TrimOverfill

Spec == Init /\ [][Next]_vars

----------------------------------------------------------------------------
\* Vocabulary of the properties.

\* seats >= 1 and <= the number of candidates.
ValidConfig == 1 <= seats /\ seats <= Len(candidates)

\* The ballots as handed to Election.__init__.
GivenBallots == IF iter = <<>> THEN ballots ELSE iter[1].ballots

\* A valid configuration and at least one ballot, every ballot ranking at
\* least one candidate (rankings name declared candidates only, each at most
\* once, in every input of the model).
ValidInput ==
    /\ ValidConfig
    /\ Len(ballots) >= 1
    /\ \A i \in DOMAIN GivenBallots : GivenBallots[i].ranking # <<>>

\* run_election returned / raised an exception.
Returned == pc = "done"
Raised == pc = "error"

\* An iteration of the main loop has just ended.
IterationEnd == pc = "while" /\ iter # <<>>

NoDuplicates(s) == \A i, j \in DOMAIN s : s[i] = s[j] => i = j

Reverse(s) == [i \in 1..Len(s) |-> s[Len(s) + 1 - i]]

\* The snapshot of the running (or last) iteration.
Cur == iter[Len(iter)]

----------------------------------------------------------------------------
\* C1: for 1 <= seats <= number of candidates and a non-empty ballot set whose
\* rankings list only declared candidates, each at most once, run_election raises no error in any round (backfill included) and returns
\* with exactly `seats` winners.
C1_ReturnsWithSeatsWinners ==
    ValidInput => /\ ~Raised
                  /\ Returned => Len(winners) = seats

\* C2: at the end of every iteration of the loop and at termination, hopefuls,
\* winners and losers are pairwise disjoint and together hold exactly the
\* original candidates.
C2_Partition ==
    (IterationEnd \/ (Returned /\ iter # <<>>)) =>
        /\ Range(hopefuls) \cup Range(winners) \cup Range(losers) = Range(candidates)
        /\ Range(hopefuls) \cap Range(winners) = {}
        /\ Range(hopefuls) \cap Range(losers) = {}
        /\ Range(winners) \cap Range(losers) = {}

\* C3: when backfill has run with k seats open, exactly the k most recently
\* eliminated candidates have left the end of losers and each has been appended
\* to winners once, in reverse elimination order (so winners holds no candidate
\* twice and holds every popped loser).
C3_BackfillPopsKLosers ==
    (pc = "trim" /\ Cur.fill # <<>>) =>
        LET w0 == Cur.fill[1]
            l0 == Cur.fill[2]
            k  == seats - Len(w0)
        IN  /\ k <= Len(l0)
            /\ losers = SubSeq(l0, 1, Len(l0) - k)
            /\ winners = w0 \o Reverse(SubSeq(l0, Len(l0) - k + 1, Len(l0)))
            /\ NoDuplicates(winners)

\* C4: an eliminated candidate is moved from losers into winners only while
\* hopefuls is empty.
C4_BackfillOnlyWithoutHopefuls ==
    (pc = "fill" /\ final_winners # <<>>) => hopefuls = <<>>

\* C5 as stated: every ballot's weight is strictly greater than 0 and at most 1
\* in every reachable state.
C5_WeightPositive ==
    \A i \in DOMAIN ballots :
        RatLt(Zero, ballots[i].weight) /\ RatLeq(ballots[i].weight, One)

\* Some round elected candidate c with a score exactly equal to the threshold.
ElectedAtThreshold(c) ==
    \E k \in DOMAIN rounds :
        /\ rounds[k].winners # None
        /\ c \in Range(rounds[k].winners)
        /\ c \in DOMAIN rounds[k].scores
        /\ rounds[k].scores[c] = Rat(Len(ballots), seats + 1)

\* C5 (amended): every ballot's weight is at least 0 and at most 1 in every
\* reachable state, and it is 0 only on a ballot that ranked a candidate
\* elected with a score exactly equal to the threshold.
C5_WeightInUnitInterval ==
    \A i \in DOMAIN ballots :
        /\ RatLeq(Zero, ballots[i].weight)
        /\ RatLeq(ballots[i].weight, One)
        /\ ballots[i].weight = Zero =>
              \E c \in Range(iter[1].ballots[i].ranking) : ElectedAtThreshold(c)

\* A surplus transfer at exactly the threshold has happened and another ballot
\* carries a diluted, positive weight.
C5_Witness ==
    /\ \E i \in DOMAIN ballots : ballots[i].weight = Zero
    /\ \E i \in DOMAIN ballots :
          RatLt(Zero, ballots[i].weight) /\ RatLt(ballots[i].weight, One)

----------------------------------------------------------------------------
\* The round an iteration has just recorded (the iteration started with
\* hopefuls, so it recorded one), read at the point the ballots are dropped.
RoundDecided == pc = "drop" /\ Cur.hopefuls # <<>>
LastRound == rounds[Len(rounds)]

RECURSIVE TotalWeight(_)
TotalWeight(bs) ==
    IF bs = <<>> THEN Zero ELSE RatAdd(Head(bs).weight, TotalWeight(Tail(bs)))

\* The round just decided used t as its threshold: it elected exactly the
\* hopefuls whose score is at least t (and eliminated only if there are none),
\* and a ballot of an elected candidate with score s was multiplied by
\* (s - t) / s, written here as weight' * s = weight * (s - t).
RoundUsedThreshold(t) ==
    LET sc  == LastRound.scores
        met == {c \in Range(Cur.hopefuls) : RatLeq(t, sc[c])}
    IN  IF met # {}
        THEN /\ LastRound.winners # None
             /\ Range(LastRound.winners) = met
             /\ \A i \in DOMAIN ballots :
                   LET p == current_preference(Cur.ballots[i])
                   IN  p \in met =>
                          RatMul(ballots[i].weight, sc[p])
                            = RatMul(Cur.ballots[i].weight, RatSub(sc[p], t))
        ELSE LastRound.winners = None

\* C6 as stated: in every round the threshold that decides the winners and the
\* surplus fraction is the sum of the current ballot weights over seats + 1.
C6_ThresholdFromCurrentWeights ==
    RoundDecided =>
        RoundUsedThreshold(RatDiv(TotalWeight(Cur.ballots), Rat(seats + 1, 1)))

\* C6 (amended): in every round the threshold that decides the winners and the
\* surplus fraction is the number of ballots over seats + 1, the same in every
\* round whatever the weights have become.
C6_ThresholdFromBallotCount ==
    RoundDecided => RoundUsedThreshold(Rat(Len(GivenBallots), seats + 1))

\* A round decided after weights were diluted, in which a hopeful reached the
\* current total weight over seats + 1 but not the number of ballots over it.
C6_Witness ==
    /\ RoundDecided
    /\ TotalWeight(Cur.ballots) # Rat(Len(ballots), 1)
    /\ \E c \in Range(Cur.hopefuls) :
          /\ RatLeq(RatDiv(TotalWeight(Cur.ballots), Rat(seats + 1, 1)),
                    LastRound.scores[c])
          /\ RatLt(LastRound.scores[c], Rat(Len(ballots), seats + 1))
          /\ RatLt(Zero, LastRound.scores[c])

\* C7: every iteration of the main loop ends with fewer hopefuls or with more
\* winners than it started with, so the loop runs at most
\* len(candidates) + seats iterations and is then left.
C7_IterationProgress ==
    /\ IterationEnd =>
          \/ Len(hopefuls) < Len(Cur.hopefuls)
          \/ Len(winners) > Len(Cur.winners)
    /\ Len(iter) <= Len(candidates) + seats

\* The loop has been left after an elimination round and an election round.
C7_Witness ==
    /\ Returned
    /\ Len(iter) >= 2
    /\ \E k \in DOMAIN rounds : rounds[k].losers # None
    /\ \E k \in DOMAIN rounds : rounds[k].winners # None

\* C8: an election on an empty ballot set ends in an error: no candidate is
\* elected and no round elects winners from all-zero scores.
C8_EmptyBallotSetFails ==
    (seats >= 1 /\ GivenBallots = <<>>) =>
        /\ ~Returned
        /\ winners = <<>>
        /\ \A k \in DOMAIN rounds : rounds[k].winners = None

\* C9: with seats <= 0 or seats > number of candidates the construction fails:
\* no round is run and run_election never returns a winners list.
C9_InvalidConfigRejected ==
    ~ValidConfig => /\ rounds = <<>>
                    /\ ~Returned

----------------------------------------------------------------------------
\* The weight the claim gives ballot b after a round with score table sc that
\* elected the candidates `elected` at threshold t.
DilutedWeight(b, sc, elected, t) ==
    LET p == current_preference(b)
    IN  IF p \in elected
        THEN RatMul(b.weight, RatDiv(RatSub(sc[p], t), sc[p]))
        ELSE b.weight

\* The first candidate of a ranking that is still a hopeful (0 if none is).
RECURSIVE NextRemaining(_, _)
NextRemaining(ranking, hs) ==
    IF ranking = <<>> THEN NoPreference
    ELSE IF In(Head(ranking), hs) THEN Head(ranking)
    ELSE NextRemaining(Tail(ranking), hs)

\* Sum over ballots bs[1..k] whose next remaining preference is q of the
\* weight the claim gives them.
RECURSIVE DilutedTally(_, _, _, _, _, _, _)
DilutedTally(bs, k, q, hs, sc, elected, t) ==
    IF k = 0 THEN Zero
    ELSE IF NextRemaining(bs[k].ranking, hs) = q
         THEN RatAdd(DilutedTally(bs, k - 1, q, hs, sc, elected, t),
                     DilutedWeight(bs[k], sc, elected, t))
         ELSE DilutedTally(bs, k - 1, q, hs, sc, elected, t)

\* The iteration before the running one, and the round it recorded.
Prev == iter[Len(iter) - 1]
PrevRound == rounds[Prev.rounds + 1]

----------------------------------------------------------------------------
\* The number of ballots over seats + 1.
Quota == Rat(Len(GivenBallots), seats + 1)

\* The hopefuls of the running iteration whose score is at least the quota.
MetQuota == {c \in Range(Cur.hopefuls) : RatLeq(Quota, scores[c])}

\* What the running iteration has appended to winners.
Elected == SubSeq(winners, Len(Cur.winners) + 1, Len(winners))

\* C11: in every round the candidates elected are exactly the hopefuls whose
\* score is at least the threshold (a score equal to it wins), appended to
\* winners in descending score order; elimination is invoked if and only if no
\* hopeful meets the threshold, so no round both elects and eliminates.
C11_ElectsExactlyThoseAtQuota ==
    pc = "drop" =>
        /\ Len(winners) >= Len(Cur.winners)
        /\ SubSeq(winners, 1, Len(Cur.winners)) = Cur.winners
        /\ Range(Elected) = MetQuota
        /\ Len(Elected) = Cardinality(MetQuota)
        /\ \A i, j \in DOMAIN Elected :
              i < j => RatLeq(scores[Elected[j]], scores[Elected[i]])
        /\ IF MetQuota # {}
           THEN /\ losers = Cur.losers
                /\ Len(rounds) = Cur.rounds + 1
                /\ LastRound = Round(Elected, None, scores)
           ELSE /\ Cur.hopefuls # <<>> =>
                      /\ Len(rounds) = Cur.rounds + 1
                      /\ LastRound.winners = None
                      /\ LastRound.losers # None
                /\ Cur.hopefuls = <<>> => Len(rounds) = Cur.rounds

\* A round has elected one candidate above the threshold and, behind it, one
\* with a score exactly equal to the threshold.
C11_Witness ==
    /\ pc = "drop"
    /\ Len(Elected) >= 2
    /\ RatLt(Quota, scores[Elected[1]])
    /\ scores[Elected[Len(Elected)]] = Quota
    /\ RatLt(Zero, Quota)

----------------------------------------------------------------------------
\* The hopefuls of the running iteration with the lowest score.
Lowest ==
    {c \in Range(Cur.hopefuls) :
        \A d \in Range(Cur.hopefuls) : RatLeq(scores[c], scores[d])}

\* What the running iteration has appended to losers.
Eliminated == SubSeq(losers, Len(Cur.losers) + 1, Len(losers))

Pos(s, x) == CHOOSE i \in DOMAIN s : s[i] = x

\* s lists exactly the members of S, each once, in their order in `order`.
ListsInOrder(s, S, order) ==
    /\ Range(s) = S
    /\ Len(s) = Cardinality(S)
    /\ \A i, j \in DOMAIN s : i < j => Pos(order, s[i]) < Pos(order, s[j])

\* C12: an elimination round with hopefuls moves exactly the hopefuls whose
\* score is the minimum among hopefuls (all of them, none with a higher score)
\* to the end of losers, in their order in hopefuls; with no hopefuls it
\* changes nothing and records no round.
C12_EliminatesAllLowest ==
    (pc = "drop" /\ MetQuota = {}) =>
        /\ Len(losers) >= Len(Cur.losers)
        /\ SubSeq(losers, 1, Len(Cur.losers)) = Cur.losers
        /\ IF Cur.hopefuls # <<>>
           THEN /\ Lowest # {}
                /\ ListsInOrder(Eliminated, Lowest, Cur.hopefuls)
                /\ ListsInOrder(hopefuls, Range(Cur.hopefuls) \ Lowest, Cur.hopefuls)
                /\ Len(rounds) = Cur.rounds + 1
                /\ LastRound = Round(None, Eliminated, scores)
           ELSE /\ hopefuls = <<>>
                /\ losers = Cur.losers
                /\ winners = Cur.winners
                /\ Len(rounds) = Cur.rounds

\* A round has eliminated two hopefuls tied at the lowest score and kept a
\* hopeful with a higher one.
C12_Witness ==
    /\ pc = "drop"
    /\ MetQuota = {}
    /\ Len(Eliminated) >= 2
    /\ hopefuls # <<>>
    /\ \E c \in Range(hopefuls) : RatLt(scores[Eliminated[1]], scores[c])

----------------------------------------------------------------------------
\* C13: an elimination round leaves every ballot's weight unchanged (weights
\* change only in election rounds), and a ballot whose current preference was
\* eliminated counts in the next round for its next remaining preference with
\* the weight it had before.
C13_EliminationKeepsWeights ==
    /\ (iter # <<>> /\ (pc \in {"score", "decide"} \/ MetQuota = {})) =>
          \A i \in DOMAIN ballots : ballots[i].weight = Cur.ballots[i].weight
    /\ (pc = "decide" /\ Len(iter) >= 2 /\ PrevRound.losers # None) =>
          /\ \A i \in DOMAIN ballots :
                /\ ballots[i].weight = Prev.ballots[i].weight
                /\ current_preference(ballots[i])
                     = NextRemaining(Prev.ballots[i].ranking, hopefuls)
          /\ \A q \in Range(hopefuls) :
                scores[q] = DilutedTally(Prev.ballots, Len(ballots), q, hopefuls,
                                         PrevRound.scores, {}, Quota)

\* The scores of a round are in, the round before it eliminated the current
\* preference of a ballot with a diluted weight, and that ballot now counts
\* for its next remaining preference.
C13_Witness ==
    /\ pc = "decide"
    /\ Len(iter) >= 2
    /\ PrevRound.losers # None
    /\ \E i \in DOMAIN ballots :
          /\ current_preference(Prev.ballots[i]) \in Range(PrevRound.losers)
          /\ current_preference(ballots[i]) \in Range(hopefuls)
          /\ RatLt(Zero, ballots[i].weight)
          /\ RatLt(ballots[i].weight, One)
          /\ RatLeq(ballots[i].weight, scores[current_preference(ballots[i])])

----------------------------------------------------------------------------
\* The candidates that are no longer hopefuls: elected, eliminated or trimmed.
Resolved == Range(candidates) \ Range(hopefuls)

\* C14: at the start of every round no ballot's ranking contains a candidate
\* that has been elected, eliminated or trimmed, so every non-exhausted
\* ballot's current preference is a hopeful and scoring only adds weight to
\* keys of the score table (an exception is only ever raised inside backfill).
C14_RankingsHoldOnlyHopefuls ==
    /\ pc = "score" =>
          /\ \A i \in DOMAIN ballots :
                /\ Range(ballots[i].ranking) \cap Resolved = {}
                /\ Range(ballots[i].ranking) \cap (Range(winners) \cup Range(losers)) = {}
                /\ ballots[i].ranking # <<>> =>
                       current_preference(ballots[i]) \in Range(hopefuls)
          /\ ~ScoringFails
    /\ pc = "decide" => DOMAIN scores = Range(hopefuls)
    /\ Raised => Cur.fill # <<>>

\* A round starts after an election and an elimination, with a ballot that
\* ranked an elected and an eliminated candidate and still has a preference.
C14_Witness ==
    /\ pc = "score"
    /\ \E i \in DOMAIN ballots :
          /\ ballots[i].ranking # <<>>
          /\ Range(GivenBallots[i].ranking) \cap Range(winners) # {}
          /\ Range(GivenBallots[i].ranking) \cap Range(losers) # {}

----------------------------------------------------------------------------
RECURSIVE SumScores(_, _)
SumScores(sc, S) ==
    IF S = {} THEN Zero
    ELSE LET c == CHOOSE x \in S : TRUE
         IN  RatAdd(sc[c], SumScores(sc, S \ {c}))

\* In every round the hopefuls' scores add up to at most
\* (seats + 1 - number elected so far) * t.
ScoresWithinRemainingQuota ==
    pc = "decide" =>
        RatLeq(SumScores(scores, DOMAIN scores),
               RatMul(Rat(seats + 1 - Len(winners), 1), Quota))

\* Before the overfill guard runs winners exceeds seats by at most one, and
\* by one only when every winner of that round scored exactly t.
OverfillAtMostOne ==
    pc = "trim" =>
        /\ Len(winners) <= seats + 1
        /\ Len(winners) = seats + 1 =>
              /\ LastRound.winners # None
              /\ \A c \in Range(LastRound.winners) :
                    c \in DOMAIN LastRound.scores /\ LastRound.scores[c] = Quota

\* C15: with t = number of ballots / (seats + 1), in every round the sum of
\* the hopefuls' scores is at most (seats + 1 - number of candidates elected so
\* far) * t; consequently winners exceeds seats by at most one before the
\* overfill guard runs, and only when every winner of that round scored
\* exactly t.
C15_QuotaBoundsOverfill ==
    ValidInput => ScoresWithinRemainingQuota /\ OverfillAtMostOne

RECURSIVE ReportedElected(_)
ReportedElected(rs) ==
    IF rs = <<>> THEN <<>>
    ELSE (IF Head(rs).winners = None THEN <<>> ELSE Head(rs).winners)
         \o ReportedElected(Tail(rs))

\* C16: at termination the final winners sequence is the concatenation, in
\* round order, of the winners lists of the recorded Rounds, so every candidate
\* a Round reports as elected holds a seat and every seat holder is reported
\* as elected by exactly one Round.
C16_RoundsAgreeWithWinners ==
    (Returned /\ ValidInput) => winners = ReportedElected(rounds)

====
